---- MODULE Spec2Model ----
(***************************************************************************)
(* A model of app.py: the lead-scoring web service.  The store holds the   *)
(* company and signal tables; startup seeds them; the route handlers read  *)
(* them.  Text that the code matches character by character (LIKE          *)
(* patterns, keyword spotting, int()) is a sequence of one-character       *)
(* strings; text that is only stored or compared whole is a string.        *)
(***************************************************************************)
EXTENDS Integers, Sequences, FiniteSets, TLC

VARIABLES
    pc,         \* position of the process: "down", "companies_committed", "serving", "responded"
    companies,  \* the company table, rows in insertion order
    signals,    \* the signal table, rows in insertion order
    nstart,     \* number of startups so far
    req,        \* the last request handled
    resp        \* the response to it

vars == <<pc, companies, signals, nstart, req, resp>>

\* Number of process startups explored.
MaxStartups == 3

\* Largest number of signals of the company in the scoring harness.
MaxSignals == 4

\* Largest number of signals of each of the two companies compared.
MaxPairSignals == 3

\* Largest numbers of company rows and of signal rows of a store that was
\* filled before the service started.
MaxStoreCompanies == 3

MaxStoreSignals == 2

-----------------------------------------------------------------------------
(* Text *)

UpperChars == <<"A","B","C","D","E","F","G","H","I","J","K","L","M","N","O","P","Q","R","S","T","U","V","W","X","Y","Z">>

LowerChars == <<"a","b","c","d","e","f","g","h","i","j","k","l","m","n","o","p","q","r","s","t","u","v","w","x","y","z">>

DigitChars == <<"0","1","2","3","4","5","6","7","8","9">>

\* str.lower() / SQL lower() on one character.
LowerChar(c) ==
    IF \E i \in 1..26 : UpperChars[i] = c
    THEN LowerChars[CHOOSE i \in 1..26 : UpperChars[i] = c]
    ELSE c

Lower(s) == [i \in 1..Len(s) |-> LowerChar(s[i])]

\* Python's `sub in s` on strings.
Contains(sub, s) ==
    \E i \in 0..(Len(s) - Len(sub)) :
        \A k \in 1..Len(sub) : s[i + k] = sub[k]

\* SQL LIKE: % matches any run of characters, _ matches any one character.
RECURSIVE LikeMatch(_, _)
LikeMatch(p, s) ==
    IF p = <<>> THEN s = <<>>
    ELSE IF Head(p) = "%"
         THEN LikeMatch(Tail(p), s) \/ (s # <<>> /\ LikeMatch(p, Tail(s)))
         ELSE /\ s # <<>>
              /\ (Head(p) = "_" \/ Head(p) = Head(s))
              /\ LikeMatch(Tail(p), Tail(s))

\* Column.ilike(f'%{arg}%'): case-insensitive LIKE with the argument spliced
\* into the pattern as it came from the request.
ILikeContains(column, arg) ==
    LikeMatch(Lower(<<"%">> \o arg \o <<"%">>), Lower(column))

IsDigit(c) == \E i \in 1..10 : DigitChars[i] = c

DigitVal(c) == (CHOOSE i \in 1..10 : DigitChars[i] = c) - 1

RECURSIVE Strip(_)
Strip(s) ==
    IF s = <<>> THEN s
    ELSE IF Head(s) = " " THEN Strip(Tail(s))
    ELSE IF s[Len(s)] = " " THEN Strip(SubSeq(s, 1, Len(s) - 1))
    ELSE s

\* The digit scan of int(): digits, single underscores only between digits.
\* Returns the value, or -1 where int() raises ValueError.
RECURSIVE ScanDigits(_, _, _)
ScanDigits(s, acc, prev) ==
    IF s = <<>> THEN (IF prev = "digit" THEN acc ELSE -1)
    ELSE IF IsDigit(Head(s))
         THEN ScanDigits(Tail(s), 10 * acc + DigitVal(Head(s)), "digit")
    ELSE IF Head(s) = "_" /\ prev = "digit"
         THEN ScanDigits(Tail(s), acc, "underscore")
    ELSE -1

\* int(text): ok is FALSE where int() raises ValueError.
PyInt(s) ==
    LET t     == Strip(s)
        signd == t # <<>> /\ Head(t) \in {"+", "-"}
        body  == IF signd THEN Tail(t) ELSE t
        mag   == ScanDigits(body, 0, "start")
    IN  IF mag < 0 THEN [ok |-> FALSE, val |-> 0]
        ELSE [ok |-> TRUE, val |-> IF signd /\ Head(t) = "-" THEN 0 - mag ELSE mag]

-----------------------------------------------------------------------------
(* Seed data *)

Michigan == <<"M","i","c","h","i","g","a","n">>

Ohio == <<"O","h","i","o">>

Texas == <<"T","e","x","a","s">>

California == <<"C","a","l","i","f","o","r","n","i","a">>

Pennsylvania == <<"P","e","n","n","s","y","l","v","a","n","i","a">>

Illinois == <<"I","l","l","i","n","o","i","s">>

Georgia == <<"G","e","o","r","g","i","a">>

Manufacturing == <<"M","a","n","u","f","a","c","t","u","r","i","n","g">>

Automation == <<"A","u","t","o","m","a","t","i","o","n">>

Technology == <<"T","e","c","h","n","o","l","o","g","y">>

ProcessControl == <<"P","r","o","c","e","s","s"," ","C","o","n","t","r","o","l">>

Utilities == <<"U","t","i","l","i","t","i","e","s">>

OilAndGas == <<"O","i","l"," ","&"," ","G","a","s">>

Transportation == <<"T","r","a","n","s","p","o","r","t","a","t","i","o","n">>

\* The eight Company(...) objects of init_sample_data, before they get an id.
SeedCompanies == <<
    [name |-> "Advanced Manufacturing Solutions", website |-> "ams-industrial.com",
     industry |-> Manufacturing, size |-> "200-500", revenue |-> "$50M-$100M",
     country |-> "USA", state |-> Michigan, city |-> "Detroit"],
    [name |-> "Precision Automation Corp", website |-> "precisionauto.com",
     industry |-> Automation, size |-> "500-1000", revenue |-> "$100M-$500M",
     country |-> "USA", state |-> Ohio, city |-> "Cleveland"],
    [name |-> "Industrial IoT Systems", website |-> "iiot-sys.com",
     industry |-> Technology, size |-> "50-200", revenue |-> "$10M-$50M",
     country |-> "USA", state |-> Texas, city |-> "Houston"],
    [name |-> "Smart Factory Solutions", website |-> "smartfactory.io",
     industry |-> Manufacturing, size |-> "1000-5000", revenue |-> "$500M-$1B",
     country |-> "USA", state |-> California, city |-> "San Jose"],
    [name |-> "Process Control Industries", website |-> "pci-controls.com",
     industry |-> ProcessControl, size |-> "500-1000", revenue |-> "$100M-$500M",
     country |-> "USA", state |-> Pennsylvania, city |-> "Pittsburgh"],
    [name |-> "Midwest Utilities Group", website |-> "mug-utilities.com",
     industry |-> Utilities, size |-> "200-500", revenue |-> "$50M-$100M",
     country |-> "USA", state |-> Illinois, city |-> "Chicago"],
    [name |-> "Gulf Coast Refinery Tech", website |-> "gcrt.com",
     industry |-> OilAndGas, size |-> "1000-5000", revenue |-> "$500M-$1B",
     country |-> "USA", state |-> Texas, city |-> "Beaumont"],
    [name |-> "NovaStar Logistics", website |-> "novastarlogistics.com",
     industry |-> Transportation, size |-> "500-1000", revenue |-> "$100M-$500M",
     country |-> "USA", state |-> Georgia, city |-> "Atlanta"] >>

\* The twelve Signal(...) objects of init_sample_data, before they get an id.
\* confidence_score is in hundredths; the description text is left out.
SeedSignals == <<
    [company_id |-> 1, signal_type |-> "hiring", source |-> "indeed.com", confidence_score |-> 85],
    [company_id |-> 1, signal_type |-> "contract", source |-> "sam.gov", confidence_score |-> 95],
    [company_id |-> 2, signal_type |-> "expansion", source |-> "press release", confidence_score |-> 90],
    [company_id |-> 2, signal_type |-> "hiring", source |-> "linkedin.com", confidence_score |-> 80],
    [company_id |-> 3, signal_type |-> "tech_mention", source |-> "linkedin.com", confidence_score |-> 75],
    [company_id |-> 4, signal_type |-> "hiring", source |-> "indeed.com", confidence_score |-> 88],
    [company_id |-> 4, signal_type |-> "expansion", source |-> "company website", confidence_score |-> 82],
    [company_id |-> 5, signal_type |-> "contract", source |-> "sam.gov", confidence_score |-> 91],
    [company_id |-> 6, signal_type |-> "hiring", source |-> "indeed.com", confidence_score |-> 78],
    [company_id |-> 7, signal_type |-> "tech_mention", source |-> "industry publication", confidence_score |-> 72],
    [company_id |-> 7, signal_type |-> "contract", source |-> "state tender", confidence_score |-> 93],
    [company_id |-> 8, signal_type |-> "expansion", source |-> "press release", confidence_score |-> 86] >>

-----------------------------------------------------------------------------
(* The store *)

\* Keys counted from 0.
NextIdFromZero(table) ==
    IF table = <<>> THEN 0
    ELSE 1 + (CHOOSE m \in {table[i].id : i \in 1..Len(table)} :
                 \A i \in 1..Len(table) : table[i].id <= m)

\* The integer primary key the database gives the next inserted row.
NextId(table) ==
    IF table = <<>> THEN 1
    ELSE 1 + (CHOOSE m \in {table[i].id : i \in 1..Len(table)} :
                 \A i \in 1..Len(table) : table[i].id <= m)

\* db.session.add of each row in turn, then commit.
RECURSIVE InsertAll(_, _)
InsertAll(table, rows) ==
    IF rows = <<>> THEN table
    ELSE InsertAll(Append(table, [id |-> NextId(table)] @@ Head(rows)), Tail(rows))

\* Company.signals: the signal rows whose company_id is the company's id.
SignalsIn(sigs, c) == SelectSeq(sigs, LAMBDA s : s.company_id = c.id)

SignalsOf(c) == SignalsIn(signals, c)

-----------------------------------------------------------------------------
(* Derived attributes of a company *)

BaseScore == 35

IntentCap == 99

DefaultWeight == 10

\* weights.get(signal_type, 0): an unrecognized type adds nothing.
WeightNoDefault(t) ==
    CASE t = "contract"     -> 30
      [] t = "expansion"    -> 25
      [] t = "hiring"       -> 20
      [] t = "tech_mention" -> 15
      [] OTHER              -> 0

\* weights.get(signal_type, 10)
Weight(t) ==
    CASE t = "contract"     -> 30
      [] t = "expansion"    -> 25
      [] t = "hiring"       -> 20
      [] t = "tech_mention" -> 15
      [] OTHER              -> DefaultWeight

\* The loop with a bonus of 10 for a signal whose confidence is above 0.8.
RECURSIVE AddWeightsWithBonus(_, _)
AddWeightsWithBonus(score, sigs) ==
    IF sigs = <<>> THEN score
    ELSE AddWeightsWithBonus(
             score + Weight(Head(sigs).signal_type)
                   + (IF Head(sigs).confidence_score > 80 THEN 10 ELSE 0),
             Tail(sigs))

\* The loop `for signal in self.signals: score += weights.get(...)`.
RECURSIVE AddWeights(_, _)
AddWeights(score, sigs) ==
    IF sigs = <<>> THEN score
    ELSE AddWeights(score + Weight(Head(sigs).signal_type), Tail(sigs))

Min(a, b) == IF a <= b THEN a ELSE b

\* The score without the cap.
ComputeBuyingIntentNoCap(sigs) == AddWeights(BaseScore, sigs)

\* Company.compute_buying_intent, on the company's signal rows.
ComputeBuyingIntent(sigs) == Min(AddWeights(BaseScore, sigs), IntentCap)

\* The summaries dict, in insertion order; v names the paragraph.
Summaries == <<
    [k |-> {"hiring", "contract"}, v |-> "hiring+contract"],
    [k |-> {"hiring"},             v |-> "hiring"],
    [k |-> {"contract"},           v |-> "contract"],
    [k |-> {"expansion"},          v |-> "expansion"],
    [k |-> {"tech_mention"},       v |-> "tech_mention"] >>

\* The test with the subset part dropped.
SummaryAppliesExact(k, key) == k = key

\* The test of the loop over summaries.items().
SummaryApplies(k, key) == k \subseteq key \/ k = key

\* Company.compute_ai_summary: the first entry whose key applies, else the
\* fallback paragraph.
ComputeAiSummary(sigs) ==
    LET key  == {sigs[i].signal_type : i \in 1..Len(sigs)}
        hits == {i \in 1..Len(Summaries) : SummaryApplies(Summaries[i].k, key)}
    IN  IF hits = {} THEN "default"
        ELSE Summaries[CHOOSE i \in hits : \A j \in hits : i <= j].v

\* Company.compute_recommended_action
ComputeRecommendedAction(sigs) ==
    LET score == ComputeBuyingIntent(sigs)
    IN  IF score >= 75 THEN "contact_immediately"
        ELSE IF score >= 55 THEN "schedule_call"
        ELSE "monitor"

\* Signal.to_dict; the insight string is named by its type.
SignalToDict(s) ==
    [id |-> s.id, signal_type |-> s.signal_type, source |-> s.source,
     confidence_score |-> s.confidence_score,
     ai_extracted_insight |->
        IF s.signal_type \in {"hiring", "contract", "expansion", "tech_mention"}
        THEN s.signal_type ELSE "default"]

\* Company.to_dict over the signal table sigs.
ToDictIn(sigs, c) ==
    LET own == SignalsIn(sigs, c)
    IN  [id |-> c.id, name |-> c.name, website |-> c.website,
         industry |-> c.industry, size |-> c.size, revenue |-> c.revenue,
         country |-> c.country, state |-> c.state, city |-> c.city,
         buying_intent_score |-> ComputeBuyingIntent(own),
         ai_summary |-> ComputeAiSummary(own),
         recommended_action |-> ComputeRecommendedAction(own),
         signals |-> [i \in 1..Len(own) |-> SignalToDict(own[i])]]

ToDict(c) == ToDictIn(signals, c)

Score(c) == ComputeBuyingIntent(SignalsOf(c))

\* list.sort(key=compute_buying_intent, reverse=True): stable, so companies
\* of equal score keep their order.
RECURSIVE InsertByScore(_, _)
InsertByScore(c, sorted) ==
    IF sorted = <<>> THEN <<c>>
    ELSE IF Score(Head(sorted)) >= Score(c)
         THEN <<Head(sorted)>> \o InsertByScore(c, Tail(sorted))
         ELSE <<c>> \o sorted

RECURSIVE SortFrom(_, _)
SortFrom(rest, sorted) ==
    IF rest = <<>> THEN sorted
    ELSE SortFrom(Tail(rest), InsertByScore(Head(rest), sorted))

\* The list left in query order.
SortMissing(cs) == cs

SortByIntentDesc(cs) == SortFrom(cs, <<>>)

-----------------------------------------------------------------------------
(* Startup *)

NoReq == [route |-> "none"]

NoResp == [status |-> 0]

Init ==
    /\ pc = "down"
    /\ companies = <<>>
    /\ signals = <<>>
    /\ nstart = 0
    /\ req = NoReq
    /\ resp = NoResp

\* init_sample_data without its guard.
StoreSeededNever == FALSE

\* `Company.query.first() is not None`
StoreSeeded == companies # <<>>

\* Startup against a store that already holds a company: db.create_all()
\* finds the tables, init_sample_data returns at once.
StartupSkipSeed ==
    /\ pc = "down"
    /\ nstart < MaxStartups
    /\ StoreSeeded
    /\ pc' = "serving"
    /\ nstart' = nstart + 1
    /\ UNCHANGED <<companies, signals, req, resp>>

\* Startup against an empty store: db.create_all(), then the companies are
\* added and committed.
StartupSeedCompanies ==
    /\ pc = "down"
    /\ nstart < MaxStartups
    /\ ~StoreSeeded
    /\ companies' = InsertAll(companies, SeedCompanies)
    /\ pc' = "companies_committed"
    /\ nstart' = nstart + 1
    /\ UNCHANGED <<signals, req, resp>>

\* The second half of init_sample_data: the signals are added and committed.
StartupSeedSignals ==
    /\ pc = "companies_committed"
    /\ signals' = InsertAll(signals, SeedSignals)
    /\ pc' = "serving"
    /\ UNCHANGED <<companies, nstart, req, resp>>

\* The process ends; the store stays.
Shutdown ==
    /\ pc = "serving"
    /\ pc' = "down"
    /\ UNCHANGED <<companies, signals, nstart, req, resp>>

-----------------------------------------------------------------------------
(* Request parameters explored *)

StateArgs == {<<>>, <<"t","e","x","a","s">>, <<"T","E","X">>, <<"t","_","x","a","s">>, <<"%">>, <<"o","h","i","o">>, <<"z","z">>}

IndustryArgs == {<<>>, <<"m","a","n","u","f","a","c","t","u","r">>, <<"A","U","T","O">>, <<"o","i","l">>, <<"_">>}

SizeArgs == {"", "500-1000", "1000-5000", "1-10"}

SignalTypeArgs == {"", "hiring", "contract", "webinar"}

MinIntentArgs == {<<>>, <<"7","0">>, <<"a","b","c">>, <<"7","0","a","b","c">>, <<"3",".","5">>, <<" ","8","0">>, <<"7","_","0">>, <<"-","5">>, <<"1","0","0">>, <<"0">>}

-----------------------------------------------------------------------------
(* GET /api/companies *)

HasSignalType(c, t) ==
    \E i \in 1..Len(signals) :
        signals[i].company_id = c.id /\ signals[i].signal_type = t

\* The SQL query: each supplied argument adds one filter.
CompaniesQuery(state, industry, size, signal_type) ==
    SelectSeq(companies, LAMBDA c :
        /\ (state # <<>> => ILikeContains(c.state, state))
        /\ (industry # <<>> => ILikeContains(c.industry, industry))
        /\ (size # "" => c.size = size)
        /\ (signal_type # "" => HasSignalType(c, signal_type)))

\* The post-query filter with `except ValueError: companies = []`.
MinIntentFilterRejecting(cs, min_intent) ==
    IF min_intent = <<>> THEN cs
    ELSE IF PyInt(min_intent).ok
         THEN SelectSeq(cs, LAMBDA c : Score(c) >= PyInt(min_intent).val)
         ELSE <<>>

\* The post-query filter: int(min_intent), and `except ValueError: pass`.
MinIntentFilter(cs, min_intent) ==
    IF min_intent = <<>> THEN cs
    ELSE IF PyInt(min_intent).ok
         THEN SelectSeq(cs, LAMBDA c : Score(c) >= PyInt(min_intent).val)
         ELSE cs

\* The company list of the response, before to_dict.
CompaniesResult(state, industry, size, signal_type, min_intent) ==
    SortByIntentDesc(
        MinIntentFilter(CompaniesQuery(state, industry, size, signal_type), min_intent))

DictList(cs) == [i \in 1..Len(cs) |-> ToDict(cs[i])]

GetCompanies(state, industry, size, signal_type, min_intent) ==
    /\ pc = "serving"
    /\ req' = [route |-> "/api/companies", state |-> state, industry |-> industry,
               size |-> size, signal_type |-> signal_type, min_intent |-> min_intent]
    /\ resp' = [status |-> 200,
                body |-> DictList(CompaniesResult(state, industry, size,
                                                  signal_type, min_intent))]
    /\ pc' = "responded"
    /\ UNCHANGED <<companies, signals, nstart>>

-----------------------------------------------------------------------------
(* GET /, /api/stats, /api/states, /api/industries *)

Index ==
    /\ pc = "serving"
    /\ req' = [route |-> "/"]
    /\ resp' = [status |-> 200, template |-> "index.html"]
    /\ pc' = "responded"
    /\ UNCHANGED <<companies, signals, nstart>>

RECURSIVE SumSeq(_)
SumSeq(xs) == IF xs = <<>> THEN 0 ELSE Head(xs) + SumSeq(Tail(xs))

\* round(total / n): to the nearest integer, a half to the even one.
RoundDiv(total, n) ==
    LET q == total \div n
        r == total % n
    IN  IF 2 * r < n THEN q
        ELSE IF 2 * r > n THEN q + 1
        ELSE IF q % 2 = 0 THEN q ELSE q + 1

AvgIntent(cs) ==
    IF cs = <<>> THEN 0
    ELSE RoundDiv(SumSeq([i \in 1..Len(cs) |-> Score(cs[i])]), Len(cs))

HighIntent(cs) == SelectSeq(cs, LAMBDA c : Score(c) >= 70)

GetStats ==
    /\ pc = "serving"
    /\ req' = [route |-> "/api/stats"]
    /\ resp' = [status |-> 200,
                stats |-> [total_companies |-> Len(companies),
                           total_signals |-> Len(signals),
                           high_intent_companies |-> Len(HighIntent(companies)),
                           avg_buying_intent |-> AvgIntent(companies)]]
    /\ pc' = "responded"
    /\ UNCHANGED <<companies, signals, nstart>>

\* The distinct non-empty states; the response is their sorted list, given
\* here as the set.
GetStates ==
    /\ pc = "serving"
    /\ req' = [route |-> "/api/states"]
    /\ resp' = [status |-> 200,
                states |-> {companies[i].state : i \in 1..Len(companies)} \ {<<>>}]
    /\ pc' = "responded"
    /\ UNCHANGED <<companies, signals, nstart>>

GetIndustries ==
    /\ pc = "serving"
    /\ req' = [route |-> "/api/industries"]
    /\ resp' = [status |-> 200,
                industries |-> {companies[i].industry : i \in 1..Len(companies)} \ {<<>>}]
    /\ pc' = "responded"
    /\ UNCHANGED <<companies, signals, nstart>>

-----------------------------------------------------------------------------
(* GET /api/ai-insights *)

QueryTextArgs == {"", "hiring in texas"}

ScopeLabelArgs == {"", "My view"}

\* The filtered company set, and the fallback to the full table when the
\* filters match nothing.
InsightCompanies(state, industry, signal_type) ==
    LET cs == CompaniesQuery(state, industry, "", signal_type)
    IN  IF cs = <<>> THEN companies ELSE cs

\* all_signals restricted to one type.
SignalsOfType(cs, t) ==
    SelectSeq(signals, LAMBDA s :
        s.signal_type = t /\ \E i \in 1..Len(cs) : cs[i].id = s.company_id)

\* max(counts, key=counts.get) over a dict filled in the order of the
\* values: the first value, in that order, with the largest count.
Hottest(values, dflt) ==
    IF values = <<>> THEN dflt
    ELSE LET cnt(v) == Cardinality({i \in 1..Len(values) : values[i] = v})
             best   == CHOOSE i \in 1..Len(values) :
                          /\ \A j \in 1..Len(values) : cnt(values[j]) <= cnt(values[i])
                          /\ \A j \in 1..(i - 1) : cnt(values[j]) < cnt(values[i])
         IN  values[best]

\* The insights list before the query entry is put in front and the list
\* is cut.
InsightList(cs, state, industry, signal_type) ==
    LET high       == HighIntent(cs)
        nstates    == Cardinality({cs[i].state : i \in 1..Len(cs)})
        nindustry  == Cardinality({cs[i].industry : i \in 1..Len(cs)})
        overview   == <<[insight_type |-> "Intent Overview",
                         high_intent |-> Len(high), scored |-> Len(cs),
                         avg_intent |-> AvgIntent(cs)]>>
        hiring     == IF SignalsOfType(cs, "hiring") # <<>>
                      THEN <<[insight_type |-> "Hiring Signal",
                              count |-> Len(SignalsOfType(cs, "hiring"))]>>
                      ELSE <<>>
        contract   == IF SignalsOfType(cs, "contract") # <<>>
                      THEN <<[insight_type |-> "Contract Intelligence",
                              count |-> Len(SignalsOfType(cs, "contract"))]>>
                      ELSE IF signal_type = "contract"
                      THEN <<[insight_type |-> "Contract Intelligence", count |-> 0]>>
                      ELSE <<>>
        expansion  == IF SignalsOfType(cs, "expansion") # <<>>
                      THEN <<[insight_type |-> "Expansion Alert",
                              count |-> Len(SignalsOfType(cs, "expansion"))]>>
                      ELSE <<>>
        focus      == IF state = <<>> /\ nstates > 1
                      THEN <<[insight_type |-> "Geographic Opportunity",
                              hottest |-> Hottest([i \in 1..Len(cs) |-> cs[i].state], <<>>)]>>
                      ELSE IF industry = <<>> /\ nindustry > 1
                      THEN <<[insight_type |-> "Sector Focus",
                              hottest |-> Hottest([i \in 1..Len(cs) |-> cs[i].industry], <<>>)]>>
                      ELSE <<>>
        tech       == IF SignalsOfType(cs, "tech_mention") # <<>>
                      THEN <<[insight_type |-> "Technology Signal",
                              count |-> Len(SignalsOfType(cs, "tech_mention"))]>>
                      ELSE <<>>
    IN  overview \o hiring \o contract \o expansion \o focus \o tech

\* The list cut to 4 before the query entry is put in front.
InsightsBodyCutFirst(cs, state, industry, signal_type, query_text) ==
    LET base == InsightList(cs, state, industry, signal_type)
        cut  == SubSeq(base, 1, Min(Len(base), 4))
    IN  IF query_text # ""
        THEN <<[insight_type |-> "AI Search Result", scored |-> Len(cs),
                avg_intent |-> AvgIntent(cs)]>> \o cut
        ELSE cut

\* insights.insert(0, ...) when a query was given, then insights[:4].
InsightsBody(cs, state, industry, signal_type, query_text) ==
    LET base == InsightList(cs, state, industry, signal_type)
        full == IF query_text # ""
                THEN <<[insight_type |-> "AI Search Result", scored |-> Len(cs),
                        avg_intent |-> AvgIntent(cs)]>> \o base
                ELSE base
    IN  SubSeq(full, 1, Min(Len(full), 4))

\* scope_desc
ScopeDesc(state, industry, signal_type, scope_label) ==
    IF scope_label # "" THEN <<"label", scope_label>>
    ELSE IF state # <<>> \/ industry # <<>> \/ signal_type # ""
         THEN <<"filters", state, industry>>
         ELSE <<"Full Database">>

GetAiInsights(state, industry, signal_type, query_text, scope_label) ==
    /\ pc = "serving"
    /\ req' = [route |-> "/api/ai-insights", state |-> state, industry |-> industry,
               signal_type |-> signal_type, query_text |-> query_text,
               scope_label |-> scope_label]
    /\ LET cs == InsightCompanies(state, industry, signal_type)
       IN  resp' = [status |-> 200,
                    insights |-> InsightsBody(cs, state, industry, signal_type, query_text),
                    scope_desc |-> ScopeDesc(state, industry, signal_type, scope_label),
                    scoped |-> [i \in 1..Len(cs) |-> cs[i].id]]
    /\ pc' = "responded"
    /\ UNCHANGED <<companies, signals, nstart>>

-----------------------------------------------------------------------------
(* POST /api/search *)

Queries == {<<>>, <<"h","i","r","i","n","g">>, <<"H","i","r","i","n","g"," ","i","n"," ","T","e","x","a","s">>, <<"h","o","t"," ","c","o","m","p","a","n","i","e","s"," ","h","i","r","i","n","g">>,
            <<"h","i","r","i","n","g"," ","c","o","n","t","r","a","c","t">>, <<"o","h","i","o"," ","t","e","x","a","s">>, <<"f","e","d","e","r","a","l"," ","a","u","t","o","m","a","t","i","o","n">>,
            <<"g","r","o","w","i","n","g"," ","o","i","l">>, <<"p","h","o","t","o">>, <<"e","x","p","a","n","s","i","o","n"," ","i","n"," ","g","e","o","r","g","i","a">>, <<"x","y","z">>}

IntentWords == <<<<"h","i","g","h"," ","i","n","t","e","n","t">>, <<"r","e","a","d","y"," ","t","o"," ","b","u","y">>, <<"h","o","t">>>>

HiringWords == <<<<"h","i","r","i","n","g">>, <<"r","e","c","r","u","i","t","i","n","g">>>>

ContractWords == <<<<"c","o","n","t","r","a","c","t">>, <<"g","o","v","e","r","n","m","e","n","t">>, <<"f","e","d","e","r","a","l">>>>

ExpansionWords == <<<<"e","x","p","a","n","d","i","n","g">>, <<"e","x","p","a","n","s","i","o","n">>, <<"g","r","o","w","i","n","g">>>>

\* any(w in query for w in words)
AnyIn(words, query) == \E i \in 1..Len(words) : Contains(words[i], query)

\* The if/elif chain: at most one of the four filters, the first that matches.
IntentFilter(query) ==
    IF AnyIn(IntentWords, query) THEN "min_intent"
    ELSE IF AnyIn(HiringWords, query) THEN "hiring"
    ELSE IF AnyIn(ContractWords, query) THEN "contract"
    ELSE IF AnyIn(ExpansionWords, query) THEN "expansion"
    ELSE "none"

StateMap == <<
    [keyword |-> <<"m","i","c","h","i","g","a","n">>, value |-> Michigan],
    [keyword |-> <<"o","h","i","o">>, value |-> Ohio],
    [keyword |-> <<"t","e","x","a","s">>, value |-> Texas],
    [keyword |-> <<"c","a","l","i","f","o","r","n","i","a">>, value |-> California],
    [keyword |-> <<"p","e","n","n","s","y","l","v","a","n","i","a">>, value |-> Pennsylvania],
    [keyword |-> <<"i","l","l","i","n","o","i","s">>, value |-> Illinois],
    [keyword |-> <<"g","e","o","r","g","i","a">>, value |-> Georgia] >>

IndustryMap == <<
    [keyword |-> <<"m","a","n","u","f","a","c","t","u","r">>, value |-> Manufacturing],
    [keyword |-> <<"a","u","t","o","m","a","t">>, value |-> Automation],
    [keyword |-> <<"u","t","i","l","i","t","i","e","s">>, value |-> Utilities],
    [keyword |-> <<"o","i","l">>, value |-> OilAndGas],
    [keyword |-> <<"t","r","a","n","s","p","o","r","t">>, value |-> Transportation] >>

\* The entries of a keyword map whose keyword is in the query, in map order.
MapHits(map, query) ==
    SelectSeq(map, LAMBDA e : Contains(e.keyword, query))

\* The loop `for keyword, v in map.items(): if keyword in query: filters[f] = v`:
\* each hit overwrites the one before, so the last hit stays; <<>> is no filter.
MapFilter(map, query) ==
    LET hits == MapHits(map, query)
    IN  IF hits = <<>> THEN <<>> ELSE hits[Len(hits)].value

\* ai_interpretation: the sentence of the chosen filter, then one sentence
\* for every state hit and one for every industry hit.
Interpretation(query) ==
    LET f    == IntentFilter(query)
        geo  == MapHits(StateMap, query)
        ind  == MapHits(IndustryMap, query)
        text == (IF f = "none" THEN <<>> ELSE <<<<"filter", f>>>>)
                \o [i \in 1..Len(geo) |-> <<"Geo-filter applied", geo[i].value>>]
                \o [i \in 1..Len(ind) |-> <<"Industry filter", ind[i].value>>]
    IN  IF text = <<>> THEN <<<<"semantic search", query>>>> ELSE text

\* The filters dict built from the lowered query.
SearchFilters(query) ==
    LET f == IntentFilter(query)
    IN  [min_intent  |-> IF f = "min_intent" THEN 70 ELSE -1,
         signal_type |-> IF f \in {"hiring", "contract", "expansion"} THEN f ELSE "",
         state       |-> MapFilter(StateMap, query),
         industry    |-> MapFilter(IndustryMap, query)]

\* The query, the min_intent filter and the sort.
SearchResult(filters) ==
    LET cs == SelectSeq(companies, LAMBDA c :
                  /\ (filters.state # <<>> => c.state = filters.state)
                  /\ (filters.industry # <<>> => ILikeContains(c.industry, filters.industry))
                  /\ (filters.signal_type # "" => HasSignalType(c, filters.signal_type)))
        kept == IF filters.min_intent >= 0
                THEN SelectSeq(cs, LAMBDA c : Score(c) >= filters.min_intent)
                ELSE cs
    IN  SortByIntentDesc(kept)

\* round(min(score / 100, 0.99), 2), in hundredths.
Relevance(c) == Min(Score(c), 99)

\* A search that writes the sorted order back to the company table.
AiSearchReordering(text) ==
    /\ pc = "serving"
    /\ req' = [route |-> "/api/search", query |-> text]
    /\ resp' = [status |-> 200, total |-> Len(companies)]
    /\ companies' = SortByIntentDesc(companies)
    /\ pc' = "responded"
    /\ UNCHANGED <<signals, nstart>>

AiSearch(text) ==
    /\ pc = "serving"
    /\ req' = [route |-> "/api/search", query |-> text]
    /\ LET query == Lower(text)
           cs    == SearchResult(SearchFilters(query))
       IN  resp' = [status |-> 200,
                    ai_interpretation |-> Interpretation(query),
                    results |-> [i \in 1..Len(cs) |->
                                    [company |-> ToDict(cs[i]),
                                     relevance_score |-> Relevance(cs[i])]],
                    total |-> Len(cs)]
    /\ pc' = "responded"
    /\ UNCHANGED <<companies, signals, nstart>>

-----------------------------------------------------------------------------
(* The service *)

\* The response is sent and the request context is torn down; the process
\* waits for the next request.
SendResponse ==
    /\ pc = "responded"
    /\ pc' = "serving"
    /\ req' = NoReq
    /\ resp' = NoResp
    /\ UNCHANGED <<companies, signals, nstart>>

Request ==
    \/ Index
    \/ GetStats
    \/ \E st \in StateArgs, ind \in IndustryArgs, sz \in SizeArgs,
          ty \in SignalTypeArgs, mi \in MinIntentArgs :
          GetCompanies(st, ind, sz, ty, mi)
    \/ GetStates
    \/ GetIndustries
    \/ \E st \in StateArgs, ind \in IndustryArgs, ty \in SignalTypeArgs,
          q \in QueryTextArgs, lb \in ScopeLabelArgs :
          GetAiInsights(st, ind, ty, q, lb)
    \/ \E text \in Queries : AiSearch(text)

Next ==
    \/ StartupSkipSeed
    \/ StartupSeedCompanies
    \/ StartupSeedSignals
    \/ Shutdown
    \/ Request
    \/ SendResponse

Spec == Init /\ [][Next]_vars

-----------------------------------------------------------------------------
(* The scoring harness: one company with any signals up to MaxSignals *)

SignalTypeValues == {"hiring", "contract", "expansion", "tech_mention", "webinar"}

RecognizedTypes == {"hiring", "contract", "expansion", "tech_mention"}

HarnessSignal(t) ==
    [company_id |-> 1, signal_type |-> t, source |-> "harness", confidence_score |-> 50]

FnInit ==
    /\ pc = "fn"
    /\ companies = InsertAll(<<>>, <<SeedCompanies[1]>>)
    /\ signals \in {InsertAll(<<>>, [i \in 1..Len(ts) |-> HarnessSignal(ts[i])]) :
                       ts \in UNION {[1..n -> SignalTypeValues] : n \in 0..MaxSignals}}
    /\ nstart = 0
    /\ req = NoReq
    /\ resp = NoResp

\* One more signal on the company; the derived attributes before and after.
FnAddSignal(t) ==
    /\ pc = "fn"
    /\ Len(signals) < MaxSignals
    /\ signals' = InsertAll(signals, <<HarnessSignal(t)>>)
    /\ req' = [route |-> "add_signal", signal_type |-> t]
    /\ resp' = [status |-> 200,
                before |-> ToDict(companies[1]),
                after |-> ToDictIn(signals', companies[1])]
    /\ UNCHANGED <<pc, companies, nstart>>

\* to_dict of the company.
FnToDict ==
    /\ pc = "fn"
    /\ req' = [route |-> "to_dict"]
    /\ resp' = [status |-> 200, dict |-> ToDict(companies[1])]
    /\ UNCHANGED <<pc, companies, signals, nstart>>

FnNext ==
    \/ \E t \in SignalTypeValues : FnAddSignal(t)
    \/ FnToDict

SpecFn == FnInit /\ [][FnNext]_vars

-----------------------------------------------------------------------------
(* Claims *)

ScoresOf(dicts) == [i \in 1..Len(dicts) |-> dicts[i].buying_intent_score]

\* Number of signals of the harness company with a type in ts.
CountTypes(ts) ==
    Cardinality({i \in 1..Len(signals) :
        signals[i].company_id = 1 /\ signals[i].signal_type \in ts})

TypesPresent == {signals[i].signal_type : i \in 1..Len(signals)}

\* C1: compute_buying_intent is never above the cap 99 nor below the base 35,
\* and adding one more signal of any type never lowers it.
C1_ScoreBoundedMonotone ==
    /\ req.route = "to_dict" => resp.dict.buying_intent_score \in 35..99
    /\ req.route = "add_signal" =>
          /\ resp.before.buying_intent_score \in 35..99
          /\ resp.after.buying_intent_score \in 35..99
          /\ resp.after.buying_intent_score >= resp.before.buying_intent_score

\* A signal of an unrecognized type was added to a company below the cap and
\* the score stopped at the cap.
C1_Witness ==
    /\ req.route = "add_signal"
    /\ req.signal_type = "webinar"
    /\ resp.before.buying_intent_score = 95
    /\ resp.after.buying_intent_score = 99

\* C2: the score is min(35 + sum of the weights, 99) with contract 30,
\* expansion 25, hiring 20, tech_mention 15 and any other type 10, every
\* signal counted once.
C2_ScoreFormula ==
    req.route = "to_dict" =>
        resp.dict.buying_intent_score =
            Min(35 + 30 * CountTypes({"contract"}) + 25 * CountTypes({"expansion"})
                   + 20 * CountTypes({"hiring"}) + 15 * CountTypes({"tech_mention"})
                   + 10 * CountTypes(SignalTypeValues \ RecognizedTypes),
                99)

\* Two signals of one type and one of an unrecognized type, below the cap.
C2_Witness ==
    /\ req.route = "to_dict"
    /\ CountTypes({"hiring"}) = 2
    /\ CountTypes({"webinar"}) = 1
    /\ Len(signals) = 3
    /\ resp.dict.buying_intent_score = 85

\* C9: hiring and contract together give the combined paragraph, a single
\* recognized type alone gives its paragraph, and the fallback paragraph is
\* given exactly when no recognized type is present.
C9_SummarySelection ==
    req.route = "to_dict" =>
        /\ {"hiring", "contract"} \subseteq TypesPresent =>
              resp.dict.ai_summary = "hiring+contract"
        /\ \A t \in RecognizedTypes :
              TypesPresent = {t} => resp.dict.ai_summary = t
        /\ resp.dict.ai_summary = "default" <=> TypesPresent \cap RecognizedTypes = {}

\* A company with hiring, contract and two other types got the combined
\* paragraph.
C9_Witness ==
    /\ req.route = "to_dict"
    /\ TypesPresent = {"hiring", "contract", "expansion", "webinar"}
    /\ resp.dict.ai_summary = "hiring+contract"

\* Case-insensitive substring, as the claims use the word.
ContainsCI(sub, s) == Contains(Lower(sub), Lower(s))

\* The text denotes an integer for int(): spaces around, an optional sign,
\* digits, single underscores between digits.
IsIntegerText(s) ==
    \E a \in 1..Len(s), b \in 1..Len(s) :
        /\ a <= b
        /\ \A i \in 1..(a - 1) : s[i] = " "
        /\ \A i \in (b + 1)..Len(s) : s[i] = " "
        /\ LET d0 == IF s[a] \in {"+", "-"} THEN a + 1 ELSE a
           IN  /\ d0 <= b
               /\ IsDigit(s[d0])
               /\ IsDigit(s[b])
               /\ \A i \in d0..b :
                     IsDigit(s[i]) \/ (s[i] = "_" /\ IsDigit(s[i - 1]) /\ IsDigit(s[i + 1]))

\* The predicates of a /api/companies request, as C3 states them.
MatchesRequest(c, r) ==
    /\ r.state # <<>> => ContainsCI(r.state, c.state)
    /\ r.industry # <<>> => ContainsCI(r.industry, c.industry)
    /\ r.size # "" => c.size = r.size
    /\ r.signal_type # "" =>
          \E i \in 1..Len(signals) :
              signals[i].company_id = c.id /\ signals[i].signal_type = r.signal_type
    /\ IsIntegerText(r.min_intent) =>
          \E n \in -5..100 :
              /\ PyInt(r.min_intent) = [ok |-> TRUE, val |-> n]
              /\ ToDict(c).buying_intent_score >= n

IdsOf(rows) == {rows[i].id : i \in 1..Len(rows)}

\* C3: GET /api/companies returns exactly the companies of the store that
\* satisfy every supplied predicate (state and industry as case-insensitive
\* substring, size as equality, a signal of signal_type, score >= min_intent).
C3_FilterExact ==
    req.route = "/api/companies" =>
        IdsOf(resp.body) =
            {companies[i].id : i \in {j \in 1..Len(companies) :
                                         MatchesRequest(companies[j], req)}}

\* C3 for the requests whose state and industry hold no LIKE wildcard.
C3_NoWildcard ==
    (/\ req.route = "/api/companies"
     /\ \A i \in 1..Len(req.state) : req.state[i] \notin {"%", "_"}
     /\ \A i \in 1..Len(req.industry) : req.industry[i] \notin {"%", "_"}) =>
        IdsOf(resp.body) =
            {companies[i].id : i \in {j \in 1..Len(companies) :
                                         MatchesRequest(companies[j], req)}}

StripId(row) == [f \in DOMAIN row \ {"id"} |-> row[f]]

\* C4: after every startup the store holds the rows of the first startup,
\* the 8 seed companies and the 12 seed signals, none of them twice.
C4_SeedIdempotent ==
    pc \in {"serving", "responded"} =>
        /\ Len(companies) = 8
        /\ Len(signals) = 12
        /\ [i \in 1..Len(companies) |-> StripId(companies[i])] = SeedCompanies
        /\ [i \in 1..Len(signals) |-> StripId(signals[i])] = SeedSignals
        /\ Cardinality(IdsOf(companies)) = 8
        /\ Cardinality(IdsOf(signals)) = 12

\* The service is up after a second startup against the seeded store.
C4_Witness ==
    /\ pc = "serving"
    /\ nstart >= 2
    /\ Len(companies) = 8
    /\ Len(signals) = 12

\* C5: every signal row's company_id is the id of a company row.
C5_SignalsReferenceCompanies ==
    \A i \in 1..Len(signals) :
        \E j \in 1..Len(companies) : companies[j].id = signals[i].company_id

\* The seed signals are stored, with company ids 1 to 8, and a request was
\* served after a restart.
C5_Witness ==
    /\ pc = "responded"
    /\ nstart >= 2
    /\ {signals[i].company_id : i \in 1..Len(signals)} = 1..8

\* C6: no request changes the company table or the signal table.
C6_RequestsReadOnly ==
    [][(pc = "serving" /\ pc' = "responded") =>
          (companies' = companies /\ signals' = signals)]_vars

\* A search was served from the seeded store.
C6_Witness ==
    /\ pc = "responded"
    /\ req.route = "/api/search"
    /\ Len(companies) = 8
    /\ Len(signals) = 12

\* C7: a min_intent that is not an integer is ignored: the response is the
\* normal list of the same request without min_intent.
C7_MalformedMinIntentIgnored ==
    (/\ req.route = "/api/companies"
     /\ req.min_intent # <<>>
     /\ ~IsIntegerText(req.min_intent)) =>
        /\ resp.status = 200
        /\ resp.body = DictList(CompaniesResult(req.state, req.industry, req.size,
                                                req.signal_type, <<>>))

\* A request with min_intent=70abc and no other filter got all 8 companies.
C7_Witness ==
    /\ req.route = "/api/companies"
    /\ req.min_intent = <<"7","0","a","b","c">>
    /\ req.state = <<>> /\ req.industry = <<>> /\ req.size = "" /\ req.signal_type = ""
    /\ Len(resp.body) = 8

Descending(scores) ==
    \A i \in 1..(Len(scores) - 1) : scores[i] >= scores[i + 1]

\* C8: the lists of /api/companies and /api/search are ordered by buying
\* intent score, highest first.
C8_SortedByIntent ==
    /\ req.route = "/api/companies" => Descending(ScoresOf(resp.body))
    /\ req.route = "/api/search" =>
          Descending([i \in 1..Len(resp.results) |->
                         resp.results[i].company.buying_intent_score])

\* A list of all 8 companies whose first score is above its last.
C8_Witness ==
    /\ req.route = "/api/companies"
    /\ Len(resp.body) = 8
    /\ resp.body[1].buying_intent_score > resp.body[8].buying_intent_score

HasType(dict, t) == \E i \in 1..Len(dict.signals) : dict.signals[i].signal_type = t

\* C10: for every search query, each signal keyword in it means every returned
\* company has a signal of that type, and each state keyword in it means
\* every returned company is in that state.
C10_SearchKeywordsApplied ==
    req.route = "/api/search" =>
        LET query == Lower(req.query)
        IN  \A i \in 1..Len(resp.results) :
                LET c == resp.results[i].company
                IN  /\ AnyIn(HiringWords, query) => HasType(c, "hiring")
                    /\ AnyIn(ContractWords, query) => HasType(c, "contract")
                    /\ AnyIn(ExpansionWords, query) => HasType(c, "expansion")
                    /\ \A k \in 1..Len(StateMap) :
                          Contains(StateMap[k].keyword, query) => c.state = StateMap[k].value

-----------------------------------------------------------------------------
(* Two companies with the same signal types: the second has them in another
   order, from another source and with another confidence *)

OtherSignal(t) ==
    [company_id |-> 2, signal_type |-> t, source |-> "linkedin.com", confidence_score |-> 90]

PairInit ==
    /\ pc = "fn"
    /\ companies = InsertAll(<<>>, <<SeedCompanies[1], SeedCompanies[2]>>)
    /\ \E ts \in UNION {[1..n -> SignalTypeValues] : n \in 0..MaxPairSignals} :
          \E f \in Permutations(1..Len(ts)) :
              signals = InsertAll(<<>>,
                            [i \in 1..Len(ts) |-> HarnessSignal(ts[i])]
                            \o [i \in 1..Len(ts) |-> OtherSignal(ts[f[i]])])
    /\ nstart = 0
    /\ req = NoReq
    /\ resp = NoResp

\* to_dict of both companies.
PairToDict ==
    /\ pc = "fn"
    /\ req' = [route |-> "to_dict_pair"]
    /\ resp' = [status |-> 200,
                pair |-> <<ToDict(companies[1]), ToDict(companies[2])>>]
    /\ UNCHANGED <<pc, companies, signals, nstart>>

PairNext == PairToDict

SpecPair == PairInit /\ [][PairNext]_vars

TypesOf(dict) == [i \in 1..Len(dict.signals) |-> dict.signals[i].signal_type]

\* The recommended action C11 gives for a score.
ActionBand(score) ==
    IF score >= 75 THEN "contact_immediately"
    ELSE IF score >= 55 /\ score <= 74 THEN "schedule_call"
    ELSE "monitor"

\* C11: two companies with the same multiset of signal types get the same
\* buying intent score and the same recommended action (contact immediately
\* from 75, schedule a call from 55 to 74, monitor below 55), whatever the
\* order, confidence and source of the signals and the companies' other
\* fields.
C11_DerivedFromSignalTypes ==
    req.route = "to_dict_pair" =>
        /\ resp.pair[1].buying_intent_score = resp.pair[2].buying_intent_score
        /\ resp.pair[1].recommended_action = resp.pair[2].recommended_action
        /\ \A k \in 1..2 :
              resp.pair[k].recommended_action = ActionBand(resp.pair[k].buying_intent_score)

\* Two companies with hiring and expansion signals in different orders,
\* both scored 80.
C11_Witness ==
    /\ req.route = "to_dict_pair"
    /\ TypesOf(resp.pair[1]) = <<"hiring", "expansion">>
    /\ TypesOf(resp.pair[2]) = <<"expansion", "hiring">>
    /\ resp.pair[1].buying_intent_score = 80
    /\ resp.pair[2].buying_intent_score = 80
    /\ resp.pair[1].name # resp.pair[2].name

-----------------------------------------------------------------------------
(* GET /api/ai-insights: scope *)

\* A company matches the filters of a /api/ai-insights request; the text
\* filters are read as the query reads them, so that only the scope is in
\* question here.
MatchesInsightFilters(c, r) ==
    /\ r.state # <<>> => ILikeContains(c.state, r.state)
    /\ r.industry # <<>> => ILikeContains(c.industry, r.industry)
    /\ r.signal_type # "" =>
          \E i \in 1..Len(signals) :
              signals[i].company_id = c.id /\ signals[i].signal_type = r.signal_type

\* C12: the company set /api/ai-insights computes from holds only companies
\* that match every supplied state, industry and signal_type filter, also
\* when no company matches them.
C12_InsightsScoped ==
    req.route = "/api/ai-insights" =>
        \A i \in 1..Len(resp.scoped) :
            \E j \in 1..Len(companies) :
                /\ companies[j].id = resp.scoped[i]
                /\ MatchesInsightFilters(companies[j], req)

\* C12 for the requests whose filters match at least one company.
C12_WhenSomeMatch ==
    (/\ req.route = "/api/ai-insights"
     /\ \E j \in 1..Len(companies) : MatchesInsightFilters(companies[j], req)) =>
        \A i \in 1..Len(resp.scoped) :
            \E j \in 1..Len(companies) :
                /\ companies[j].id = resp.scoped[i]
                /\ MatchesInsightFilters(companies[j], req)

-----------------------------------------------------------------------------
(* Startup interrupted between the two commits *)

\* The process ends after the companies are committed and before the
\* signals are: it is killed, or adding or committing the signals raises.
Crash ==
    /\ pc = "companies_committed"
    /\ pc' = "down"
    /\ UNCHANGED <<companies, signals, nstart, req, resp>>

NextCrash ==
    \/ Next
    \/ Crash

SpecCrash == Init /\ [][NextCrash]_vars

\* C13: after every run of init_sample_data that completes, also one that
\* follows a run interrupted between the two commits, the store holds the
\* 12 seed signals whenever it holds the seed companies.
C13_SignalsSeededWithCompanies ==
    pc \in {"serving", "responded"} =>
        (Len(companies) = 8 => Len(signals) = 12)

-----------------------------------------------------------------------------
(* The service started against a store that already holds rows:
   init_sample_data returns at once and the handlers see those rows *)

\* The seed companies taken as rows of such a store, two of one state first.
StoreCompanyOrder == <<3, 7, 1, 2, 4, 5, 6, 8>>

StoreTypeOrder == <<"hiring", "contract", "expansion", "tech_mention", "webinar">>

\* The signal numbered p of a store of k companies: company and type.
StoreSignal(p) ==
    [company_id |-> ((p - 1) \div 5) + 1,
     signal_type |-> StoreTypeOrder[((p - 1) % 5) + 1],
     source |-> "import", confidence_score |-> 80]

\* The signal tables of a store of k companies: up to MaxStoreSignals rows,
\* in the order of their numbers.
StoreSignalTables(k) ==
    {InsertAll(<<>>, [i \in 1..Len(ps) |-> StoreSignal(ps[i])]) :
        ps \in {q \in UNION {[1..n -> 1..(5 * k)] : n \in 0..MaxStoreSignals} :
                   \A i \in 1..(Len(q) - 1) : q[i] <= q[i + 1]}}

StoreInit ==
    /\ pc = "serving"
    /\ \E k \in 1..Min(MaxStoreCompanies, Len(StoreCompanyOrder)) :
          /\ companies = InsertAll(<<>>, [i \in 1..k |-> SeedCompanies[StoreCompanyOrder[i]]])
          /\ signals \in StoreSignalTables(k)
    /\ nstart = 1
    /\ req = NoReq
    /\ resp = NoResp

StoreStateArgs == {<<>>, <<"t","e","x","a","s">>, <<"z","z">>}

StoreIndustryArgs == {<<>>, <<"o","i","l">>}

StoreSignalTypeArgs == {"", "contract"}

StoreNext ==
    \/ \E st \in StoreStateArgs, ind \in StoreIndustryArgs, ty \in StoreSignalTypeArgs,
          q \in QueryTextArgs :
          GetAiInsights(st, ind, ty, q, "")
    \/ SendResponse

SpecStore == StoreInit /\ [][StoreNext]_vars

\* C14: the list of /api/ai-insights has 1 to 4 entries, exactly one of them
\* an "Intent Overview", and with a non-empty query the "AI Search Result"
\* entry is first and the "Intent Overview" entry second.
C14_InsightsShape ==
    req.route = "/api/ai-insights" =>
        LET ins == resp.insights
        IN  /\ Len(ins) >= 1
            /\ Len(ins) <= 4
            /\ Cardinality({i \in 1..Len(ins) : ins[i].insight_type = "Intent Overview"}) = 1
            /\ req.query_text # "" =>
                  /\ ins[1].insight_type = "AI Search Result"
                  /\ Len(ins) >= 2
                  /\ ins[2].insight_type = "Intent Overview"

\* A request with a query and no state filter against a store with companies
\* of two states and hiring and contract signals: the list is cut after the
\* contract entry, the geographic entry is dropped.
C14_Witness ==
    /\ req.route = "/api/ai-insights"
    /\ req.query_text # ""
    /\ req.state = <<>>
    /\ Cardinality({companies[i].state : i \in 1..Len(companies)}) > 1
    /\ [i \in 1..Len(resp.insights) |-> resp.insights[i].insight_type] =
          <<"AI Search Result", "Intent Overview", "Hiring Signal", "Contract Intelligence">>

====
